---- MODULE Spec2Model ----
(***************************************************************************)
(* Halborn CTF contracts: the NEAR fungible token (MalbornClubContract),   *)
(* the NEAR staking contract (StakingContract), the Substrate pause pallet *)
(* and the Solana game program, each as a state machine of its entry       *)
(* points.  A call that panics (NEAR), returns Err (Substrate) or fails    *)
(* the transaction (Solana) leaves the contract state as it was; `last`    *)
(* records the call, its arguments and its outcome.                        *)
(***************************************************************************)
EXTENDS Integers, Sequences, FiniteSets, TLC

\* u128::MAX, scaled down: balances and supplies range over 0..U128_MAX.
U128_MAX == 2

\* u32::MAX, scaled down: the Solana user's credits range over 0..U32_MAX.
U32_MAX == 63

\* Extrinsics dispatched to the pause pallet in one behaviour.
MaxDispatched == 5

Accounts == {"alice", "bob"}
Amounts == 0..U128_MAX

None == <<>>
Some(x) == <<x>>
IsSome(o) == Len(o) = 1
Unwrap(o) == o[1]

Min(a, b) == IF a < b THEN a ELSE b
Max(a, b) == IF a > b THEN a ELSE b

VARIABLES
    \* MalbornClubContract
    owner_id, accounts, total_supply, token_metadata, block_list, status,
    associated_contract_account_id, registration_fee_denominator,
    \* cross-contract calls the token contract has issued, not yet executed
    pending,
    \* StakingContract
    owner, stake_balances, total_staked,
    \* pallet_pause
    Paused, dispatched,
    \* solana_vulnerable_game
    game_config, user,
    \* the last call and its outcome
    last

tokenVars == <<owner_id, accounts, total_supply, token_metadata, block_list, status,
               associated_contract_account_id, registration_fee_denominator>>
stakingVars == <<owner, stake_balances, total_staked>>
palletVars == <<Paused, dispatched>>
gameVars == <<game_config, user>>
vars == <<tokenVars, pending, stakingVars, palletVars, gameVars, last>>

NoCall == [op |-> "none", ok |-> TRUE]

(***************************************************************************)
(* u128 arithmetic                                                         *)
(***************************************************************************)
saturating_add(a, b) == IF a + b > U128_MAX THEN U128_MAX ELSE a + b
saturating_sub(a, b) == IF a < b THEN 0 ELSE a - b
\* checked_add / checked_sub: None on overflow / underflow
\* checked_add that saturates instead of reporting the overflow
checked_add_saturating(a, b) == Some(IF a + b > U128_MAX THEN U128_MAX ELSE a + b)
checked_add(a, b) == IF a + b > U128_MAX THEN None ELSE Some(a + b)
checked_sub(a, b) == IF a < b THEN None ELSE Some(a - b)

(***************************************************************************)
(* MalbornClubContract (halborn-near-ctf)                                  *)
(***************************************************************************)
Working == "Working"
PausedStatus == "Paused"
Allowed == "Allowed"
Banned == "Banned"

DefaultMetadata == [name |-> "Malborn Token", symbol |-> "MAL", decimals |-> 10]
DefaultDenominator == 10000

\* Inputs of the owner's setters.
NewNames == {[name |-> "Halborn Token", symbol |-> "HAL"]}
Denominators == {0, 2, DefaultDenominator}
AssociatedAccounts == {"events"}
EventIds == {1}

\* new(owner_id, token_total_supply).  Accounts are interchangeable, so the owner
\* is fixed; set_owner, ft_transfer_call and storage_unregister are left out.
TokenInit ==
    /\ owner_id = "alice"
    /\ \E token_total_supply \in Amounts : 
          /\ accounts = [a \in {owner_id} |-> token_total_supply]
          /\ total_supply = token_total_supply
    /\ token_metadata = Some(DefaultMetadata)
    /\ block_list = [a \in {} |-> Allowed]
    /\ status = Working
    /\ associated_contract_account_id = None
    /\ registration_fee_denominator = DefaultDenominator

Registered(accts, a) == a \in DOMAIN accts
MapPut(m, k, v) == [x \in DOMAIN m \cup {k} |-> IF x = k THEN v ELSE m[x]]

TokLast(op, ok, msg, signer, acct, amount, ret) ==
    [op |-> op, ok |-> ok, msg |-> msg, signer |-> signer, acct |-> acct,
     amount |-> amount, ret |-> ret]

\* env::panic_str / assert! / expect: the call fails and its writes are dropped.
Panic(op, msg) ==
    /\ last' = [op |-> op, ok |-> FALSE, msg |-> msg]
    /\ UNCHANGED tokenVars

Return(op, signer, acct, amount, ret) ==
    last' = TokLast(op, TRUE, "", signer, acct, amount, ret)

only_owner(signer) == signer = owner_id
\* a gate that lets every call through
not_paused_open == TRUE

not_paused == status # PausedStatus

\* a lookup that treats an account without an entry as banned
blocklist_status_default_banned(a) == IF a \in DOMAIN block_list THEN block_list[a] ELSE Banned

blocklist_status(a) == IF a \in DOMAIN block_list THEN block_list[a] ELSE Allowed
\* a check that lets every signer through
not_banned_open(a) == TRUE

not_banned(a) == blocklist_status(a) # Banned

balance_of(accts, a) == IF Registered(accts, a) THEN accts[a] ELSE 0

\* mint that registers the account and deposits into it
mint_accounts_registering(accts, a, amount) ==
    LET sum == checked_add(balance_of(accts, a), amount) IN
    IF IsSome(sum) THEN Some(MapPut(accts, a, Unwrap(sum))) ELSE None

\* lines 115-122: the balance map after minting, None when the addition overflows.
mint_accounts(accts, a, amount) ==
    IF Registered(accts, a)
    THEN LET sum == checked_add(accts[a], amount) IN
         IF IsSome(sum) THEN Some(MapPut(accts, a, Unwrap(sum))) ELSE None
    ELSE Some(accts)

mint_tokens(signer, a, amount) ==
    IF ~only_owner(signer)
    THEN Panic("mint_tokens", "Can only be called by owner")
    ELSE IF ~not_paused
    THEN Panic("mint_tokens", "Contract is paused")
    ELSE LET supply == checked_add(total_supply, amount)
             accts == mint_accounts(accounts, a, amount)
         IN IF ~IsSome(supply)
            THEN Panic("mint_tokens", "Minting caused overflow")
            ELSE IF ~IsSome(accts)
            THEN Panic("mint_tokens", "Exceeded balance")
            ELSE /\ total_supply' = Unwrap(supply)
                 /\ accounts' = Unwrap(accts)
                 /\ Return("mint_tokens", signer, a, amount, Unwrap(supply))
                 /\ UNCHANGED <<owner_id, token_metadata, block_list, status,
                                associated_contract_account_id,
                                registration_fee_denominator>>

\* burn_tokens_internal: "" when the burn goes through, else the panic message.
burn_error(a, amount) ==
    IF ~(total_supply >= amount) THEN "assertion failed"
    ELSE IF ~Registered(accounts, a) THEN "User not registered"
    ELSE IF ~(accounts[a] >= amount) THEN "assertion failed"
    ELSE ""

\* a burn that lowers the supply and forgets the holder's balance
burn_tokens_internal_supply_only(a, amount) ==
    /\ total_supply' = total_supply - amount
    /\ accounts' = accounts

burn_tokens_internal(a, amount) ==
    /\ total_supply' = total_supply - amount
    /\ accounts' = MapPut(accounts, a, accounts[a] - amount)

burn_tokens(signer, a, amount) ==
    IF ~only_owner(signer)
    THEN Panic("burn_tokens", "Can only be called by owner")
    ELSE IF ~not_paused
    THEN Panic("burn_tokens", "Contract is paused")
    ELSE IF burn_error(a, amount) # ""
    THEN Panic("burn_tokens", burn_error(a, amount))
    ELSE /\ burn_tokens_internal(a, amount)
         /\ Return("burn_tokens", signer, a, amount, 0)
         /\ UNCHANGED <<owner_id, token_metadata, block_list, status,
                        associated_contract_account_id, registration_fee_denominator>>

register_for_event(signer, event_id) ==
    IF ~not_paused
    THEN Panic("register_for_event", "Contract is paused")
    ELSE IF ~IsSome(associated_contract_account_id)
    THEN Panic("register_for_event", "Associated Account is not set")
    ELSE IF ~not_banned(signer)
    THEN Panic("register_for_event", "User is banned")
    ELSE IF registration_fee_denominator = 0
    THEN Panic("register_for_event", "attempt to divide by zero")
    ELSE LET burn_amount == total_supply \div registration_fee_denominator IN
         IF burn_error(signer, burn_amount) # ""
         THEN Panic("register_for_event", burn_error(signer, burn_amount))
         ELSE /\ burn_tokens_internal(signer, burn_amount)
              /\ Return("register_for_event", signer, signer, event_id,
                        [burned |-> burn_amount,
                         promise |-> [receiver |-> Unwrap(associated_contract_account_id),
                                      method |-> "register_for_an_event",
                                      event_id |-> event_id, account_id |-> signer]])
              /\ UNCHANGED <<owner_id, token_metadata, block_list, status,
                             associated_contract_account_id,
                             registration_fee_denominator>>

upgrade_token_name_symbol(signer, n) ==
    IF ~only_owner(signer)
    THEN Panic("upgrade_token_name_symbol", "Can only be called by owner")
    ELSE /\ token_metadata' =
               IF IsSome(token_metadata)
               THEN Some([Unwrap(token_metadata) EXCEPT !.name = n.name, !.symbol = n.symbol])
               ELSE None
         /\ Return("upgrade_token_name_symbol", signer, signer, 0, 0)
         /\ UNCHANGED <<owner_id, accounts, total_supply, block_list, status,
                        associated_contract_account_id, registration_fee_denominator>>

set_blocklist(op, signer, a, value) ==
    IF ~only_owner(signer)
    THEN Panic(op, "Can only be called by owner")
    ELSE IF ~not_paused
    THEN Panic(op, "Contract is paused")
    ELSE /\ block_list' = MapPut(block_list, a, value)
         /\ Return(op, signer, a, 0, 0)
         /\ UNCHANGED <<owner_id, accounts, total_supply, token_metadata, status,
                        associated_contract_account_id, registration_fee_denominator>>

add_to_blocklist(signer, a) == set_blocklist("add_to_blocklist", signer, a, Banned)
remove_from_blocklist(signer, a) == set_blocklist("remove_from_blocklist", signer, a, Allowed)

pause_status == PausedStatus
\* resume that sets Working
resume_status_working == Working
resume_status == PausedStatus

set_status(op, signer, value) ==
    IF ~only_owner(signer)
    THEN Panic(op, "Can only be called by owner")
    ELSE /\ status' = value
         /\ last' = [op |-> op, ok |-> TRUE, msg |-> "", signer |-> signer, was |-> status]
         /\ UNCHANGED <<owner_id, accounts, total_supply, token_metadata, block_list,
                        associated_contract_account_id, registration_fee_denominator>>

pause(signer) == set_status("pause", signer, pause_status)
resume(signer) == set_status("resume", signer, resume_status)

\* a setter that refuses a zero denominator
set_registration_fee_denominator_nonzero(signer, new_denominator) ==
    IF ~only_owner(signer)
    THEN Panic("set_registration_fee_denominator", "Can only be called by owner")
    ELSE IF new_denominator = 0
    THEN Panic("set_registration_fee_denominator", "Denominator must be positive")
    ELSE /\ registration_fee_denominator' = new_denominator
         /\ Return("set_registration_fee_denominator", signer, signer, new_denominator, 0)
         /\ UNCHANGED <<owner_id, accounts, total_supply, token_metadata, block_list,
                        status, associated_contract_account_id>>

set_registration_fee_denominator(signer, new_denominator) ==
    IF ~only_owner(signer)
    THEN Panic("set_registration_fee_denominator", "Can only be called by owner")
    ELSE /\ registration_fee_denominator' = new_denominator
         /\ Return("set_registration_fee_denominator", signer, signer, new_denominator, 0)
         /\ UNCHANGED <<owner_id, accounts, total_supply, token_metadata, block_list,
                        status, associated_contract_account_id>>

set_associated_contract(signer, a) ==
    IF ~only_owner(signer)
    THEN Panic("set_associated_contract", "Can only be called by owner")
    ELSE /\ associated_contract_account_id' = Some(a)
         /\ Return("set_associated_contract", signer, a, 0, 0)
         /\ UNCHANGED <<owner_id, accounts, total_supply, token_metadata, block_list,
                        status, registration_fee_denominator>>

\* a getter that reads the metadata with get() and leaves it in storage
take_metadata_kept(m) == m

\* token_metadata.take(): what is left in storage.
take_metadata(m) == None

metadata_field(m, field) ==
    IF field = "symbol" THEN m.symbol ELSE IF field = "name" THEN m.name ELSE m.decimals

get_metadata_field(op, field) ==
    IF ~not_paused
    THEN Panic(op, "Contract is paused")
    ELSE IF ~IsSome(token_metadata)
    THEN Panic(op, "Unable to retrieve metadata at this moment")
    ELSE /\ token_metadata' = take_metadata(token_metadata)
         /\ Return(op, "", "", 0, metadata_field(Unwrap(token_metadata), field))
         /\ UNCHANGED <<owner_id, accounts, total_supply, block_list, status,
                        associated_contract_account_id, registration_fee_denominator>>

get_symbol == get_metadata_field("get_symbol", "symbol")
get_name == get_metadata_field("get_name", "name")
get_decimals == get_metadata_field("get_decimals", "decimals")

contract_status ==
    /\ Return("contract_status", "", "", 0, status)
    /\ UNCHANGED tokenVars

get_blocklist_status(a) ==
    IF ~not_paused
    THEN Panic("get_blocklist_status", "Contract is paused")
    ELSE /\ Return("get_blocklist_status", "", a, 0, blocklist_status(a))
         /\ UNCHANGED tokenVars

\* a transfer that does not compare the amount with the sender's balance
internal_transfer_error_unchecked_balance(sender, receiver, amount) ==
    IF sender = receiver THEN "Sender and receiver should be different"
    ELSE IF ~(amount > 0) THEN "The amount should be a positive number"
    ELSE IF ~Registered(accounts, sender) THEN "The account is not registered"
    ELSE IF ~Registered(accounts, receiver) THEN "The account is not registered"
    ELSE IF ~IsSome(checked_add(accounts[receiver], amount)) THEN "Balance overflow"
    ELSE ""

\* FungibleToken::ft_transfer of near-contract-standards: the sender is the
\* predecessor; "" when the transfer goes through, else the panic message.
internal_transfer_error(sender, receiver, amount) ==
    IF sender = receiver THEN "Sender and receiver should be different"
    ELSE IF ~(amount > 0) THEN "The amount should be a positive number"
    ELSE IF ~Registered(accounts, sender) THEN "The account is not registered"
    ELSE IF ~IsSome(checked_sub(accounts[sender], amount))
         THEN "The account doesn't have enough balance"
    ELSE IF ~Registered(accounts, receiver) THEN "The account is not registered"
    ELSE IF ~IsSome(checked_add(accounts[receiver], amount)) THEN "Balance overflow"
    ELSE ""

ft_transfer(signer, predecessor, receiver, amount) ==
    IF ~not_paused
    THEN Panic("ft_transfer", "Contract is paused")
    ELSE IF ~not_banned(signer)
    THEN Panic("ft_transfer", "User is banned")
    ELSE IF ~(amount <= balance_of(accounts, signer))
    THEN Panic("ft_transfer", "assertion failed")
    ELSE IF internal_transfer_error(predecessor, receiver, amount) # ""
    THEN Panic("ft_transfer", internal_transfer_error(predecessor, receiver, amount))
    ELSE /\ accounts' = [accounts EXCEPT ![predecessor] = @ - amount,
                                         ![receiver] = @ + amount]
         /\ last' = [TokLast("ft_transfer", TRUE, "", signer, receiver, amount, 0)
                     EXCEPT !.ret = predecessor]
         /\ UNCHANGED <<owner_id, total_supply, token_metadata, block_list, status,
                        associated_contract_account_id, registration_fee_denominator>>

ft_total_supply ==
    IF ~not_paused
    THEN Panic("ft_total_supply", "Contract is paused")
    ELSE /\ Return("ft_total_supply", "", "", 0, total_supply)
         /\ UNCHANGED tokenVars

ft_balance_of(a) ==
    IF ~not_paused
    THEN Panic("ft_balance_of", "Contract is paused")
    ELSE /\ Return("ft_balance_of", "", a, 0, balance_of(accounts, a))
         /\ UNCHANGED tokenVars

ft_metadata ==
    IF ~IsSome(token_metadata)
    THEN Panic("ft_metadata", "called Option::unwrap() on a None value")
    ELSE /\ Return("ft_metadata", "", "", 0, Unwrap(token_metadata))
         /\ UNCHANGED tokenVars

\* storage_deposit(None, None) with the minimum deposit attached: registers the
\* predecessor with a zero balance unless it is registered already.
storage_deposit(predecessor) ==
    /\ accounts' = IF Registered(accounts, predecessor) THEN accounts
                   ELSE MapPut(accounts, predecessor, 0)
    /\ Return("storage_deposit", predecessor, predecessor, 0, 0)
    /\ UNCHANGED <<owner_id, total_supply, token_metadata, block_list, status,
                   associated_contract_account_id, registration_fee_denominator>>

TokenFrame == UNCHANGED <<pending, stakingVars, palletVars, gameVars>>

\* lines 151-153: the call to the associated contract leaves with the receipt of
\* a register_for_event that returned; a call that panicked issues nothing.
issue_promise ==
    pending' = IF last'.op = "register_for_event" /\ last'.ok
               THEN pending \cup {last'.ret.promise}
               ELSE pending

\* What the token contract does when the call it issued has run: the promise
\* was dropped (let _ =) without a callback, so nothing, whatever the outcome.
promise_result_accounts(accts, promise, succeeded) == accts
promise_result_supply(supply, promise, succeeded) == supply

PromiseOutcomes == {TRUE, FALSE}

\* The associated contract executes register_for_an_event, or fails to.
promise_result(promise, succeeded) ==
    /\ promise \in pending
    /\ pending' = pending \ {promise}
    /\ accounts' = promise_result_accounts(accounts, promise, succeeded)
    /\ total_supply' = promise_result_supply(total_supply, promise, succeeded)
    /\ last' = [op |-> "promise_result", ok |-> succeeded, msg |-> "",
                promise |-> promise]
    /\ UNCHANGED <<owner_id, token_metadata, block_list, status,
                   associated_contract_account_id, registration_fee_denominator>>

EventFrame == UNCHANGED <<stakingVars, palletVars, gameVars>>

\* The ledger, the administration and the metadata of the token.  The two
\* settings of the event registration are in EventNext, so here no associated
\* contract is ever set and register_for_event stops at one of its checks.
TokenNext ==
    \/ \E s \in Accounts, e \in EventIds :
          register_for_event(s, e) /\ issue_promise /\ EventFrame
    \/ \E s \in Accounts, a \in Accounts, n \in Amounts : mint_tokens(s, a, n) /\ TokenFrame
    \/ \E s \in Accounts, a \in Accounts, n \in Amounts : burn_tokens(s, a, n) /\ TokenFrame
    \/ \E s \in Accounts, n \in NewNames : upgrade_token_name_symbol(s, n) /\ TokenFrame
    \/ \E s \in Accounts, a \in Accounts : add_to_blocklist(s, a) /\ TokenFrame
    \/ \E s \in Accounts, a \in Accounts : remove_from_blocklist(s, a) /\ TokenFrame
    \/ \E s \in Accounts : pause(s) /\ TokenFrame
    \/ \E s \in Accounts : resume(s) /\ TokenFrame
    \/ get_symbol /\ TokenFrame
    \/ get_name /\ TokenFrame
    \/ get_decimals /\ TokenFrame
    \/ contract_status /\ TokenFrame
    \/ \E a \in Accounts : get_blocklist_status(a) /\ TokenFrame
    \/ \E s \in Accounts, p \in Accounts, r \in Accounts, n \in Amounts :
          ft_transfer(s, p, r, n) /\ TokenFrame
    \/ ft_total_supply /\ TokenFrame
    \/ \E a \in Accounts : ft_balance_of(a) /\ TokenFrame
    \/ ft_metadata /\ TokenFrame
    \/ \E p \in Accounts : storage_deposit(p) /\ TokenFrame

\* The event registration, with the calls that set up what it reads.
EventNext ==
    \/ \E s \in Accounts, e \in EventIds :
          register_for_event(s, e) /\ issue_promise /\ EventFrame
    \/ \E p \in pending, o \in PromiseOutcomes : promise_result(p, o) /\ EventFrame
    \/ \E s \in Accounts, d \in Denominators :
          set_registration_fee_denominator(s, d) /\ TokenFrame
    \/ \E s \in Accounts, a \in AssociatedAccounts :
          set_associated_contract(s, a) /\ TokenFrame
    \/ \E s \in Accounts, a \in Accounts, n \in Amounts : mint_tokens(s, a, n) /\ TokenFrame
    \/ \E s \in Accounts, p \in Accounts, r \in Accounts, n \in Amounts :
          ft_transfer(s, p, r, n) /\ TokenFrame
    \/ \E p \in Accounts : storage_deposit(p) /\ TokenFrame
    \/ \E s \in Accounts, a \in Accounts : add_to_blocklist(s, a) /\ TokenFrame
    \/ \E s \in Accounts, a \in Accounts : remove_from_blocklist(s, a) /\ TokenFrame
    \/ \E s \in Accounts : pause(s) /\ TokenFrame
    \/ \E s \in Accounts : resume(s) /\ TokenFrame

(***************************************************************************)
(* StakingContract (halborn-near-ctf-staking)                              *)
(***************************************************************************)
\* UnorderedMap<AccountId, u128>: entries in insertion order.
MapHas(m, k) == \E i \in 1..Len(m) : m[i].k = k
MapGet(m, k) == LET i == CHOOSE j \in 1..Len(m) : m[j].k = k IN m[i].v
MapInsert(m, k, v) ==
    IF MapHas(m, k)
    THEN [i \in 1..Len(m) |-> IF m[i].k = k THEN [k |-> k, v |-> v] ELSE m[i]]
    ELSE Append(m, [k |-> k, v |-> v])
MapKeys(m) == [i \in 1..Len(m) |-> m[i].k]

StakingInit ==
    /\ owner \in Accounts
    /\ stake_balances = <<>>
    /\ total_staked = 0

\* stake that overwrites the balance with the deposit
stake_new_balance_overwrite(m, u, deposit) == deposit

stake_new_balance(m, u, deposit) ==
    IF MapHas(m, u) THEN saturating_add(MapGet(m, u), deposit) ELSE deposit

stake(u, deposit) ==
    LET new_balance == stake_new_balance(stake_balances, u, deposit) IN
    /\ stake_balances' = MapInsert(stake_balances, u, new_balance)
    /\ total_staked' = saturating_add(total_staked, deposit)
    /\ last' = [op |-> "stake", ok |-> TRUE, caller |-> u, amount |-> deposit,
                ret |-> new_balance, promises |-> <<>>]
    /\ UNCHANGED owner

unstake_new_balance(balance, amount) == saturating_sub(balance, amount)

\* unstake that takes what was really unstaked off the total
unstake_new_total_actual(total, balance, amount) ==
    saturating_sub(total, IF amount < balance THEN amount ELSE balance)

unstake_new_total(total, balance, amount) == saturating_sub(total, amount)

\* unstake that always refunds the requested amount
unstake_refund_amount(balance, amount, new_balance) == amount

unstake_refund(balance, amount, new_balance) ==
    IF new_balance = 0 THEN balance ELSE amount

unstake(u, amount) ==
    IF ~(amount > 0)
    THEN /\ last' = [op |-> "unstake", ok |-> FALSE, caller |-> u, amount |-> amount,
                     ret |-> FALSE, promises |-> <<>>]
         /\ UNCHANGED stakingVars
    ELSE IF MapHas(stake_balances, u)
    THEN LET balance == MapGet(stake_balances, u)
             new_balance == unstake_new_balance(balance, amount)
         IN /\ stake_balances' = MapInsert(stake_balances, u, new_balance)
            /\ total_staked' = unstake_new_total(total_staked, balance, amount)
            /\ last' = [op |-> "unstake", ok |-> TRUE, caller |-> u, amount |-> amount,
                        ret |-> TRUE,
                        promises |-> <<[to |-> u,
                                        amount |-> unstake_refund(balance, amount, new_balance)]>>]
            /\ UNCHANGED owner
    ELSE /\ last' = [op |-> "unstake", ok |-> TRUE, caller |-> u, amount |-> amount,
                     ret |-> FALSE, promises |-> <<>>]
         /\ UNCHANGED stakingVars

airdrop(u, amount) ==
    /\ IF u = owner
       THEN last' = [op |-> "airdrop", ok |-> TRUE, caller |-> u, amount |-> amount,
                     ret |-> TRUE,
                     promises |-> [i \in 1..Len(stake_balances) |->
                                     [to |-> stake_balances[i].k, amount |-> amount]]]
       ELSE last' = [op |-> "airdrop", ok |-> FALSE, caller |-> u, amount |-> amount,
                     ret |-> FALSE, promises |-> <<>>]
    /\ UNCHANGED stakingVars

get_total_staked == total_staked

get_user_staked(u) == IF MapHas(stake_balances, u) THEN MapGet(stake_balances, u) ELSE 0

StakingNext ==
    \/ \E u \in Accounts, d \in Amounts :
          stake(u, d) /\ UNCHANGED <<tokenVars, pending, palletVars, gameVars>>
    \/ \E u \in Accounts, a \in Amounts :
          unstake(u, a) /\ UNCHANGED <<tokenVars, pending, palletVars, gameVars>>
    \/ \E u \in Accounts, a \in Amounts :
          airdrop(u, a) /\ UNCHANGED <<tokenVars, pending, palletVars, gameVars>>

(***************************************************************************)
(* pallet_pause (Substrate).  The pallet's lib.rs is not among the         *)
(* sources; the calls are modelled from what its tests assert.             *)
(***************************************************************************)
Admin == 1

Root == [kind |-> "Root", who |-> 0]
Signed(w) == [kind |-> "Signed", who |-> w]
Unsigned == [kind |-> "None", who |-> 0]
Origins == {Root, Unsigned} \cup {Signed(w) : w \in 0..2}

\* PauseOrigin = EnsureSignedBy<Admin, u64>; Root is accepted as well.
PauseOriginOk(origin) == origin = Root \/ origin = Signed(Admin)

PalletInit ==
    /\ Paused = FALSE
    /\ dispatched = 0

pause_value(paused) == TRUE
\* unpause that clears the flag
unpause_value_false(paused) == FALSE
unpause_value(paused) == paused
\* toggle that negates the flag
toggle_value_negated(paused) == ~paused
toggle_value(paused) == paused

Dispatch(call, origin, value) ==
    /\ dispatched < MaxDispatched
    /\ dispatched' = dispatched + 1
    /\ IF PauseOriginOk(origin)
       THEN /\ Paused' = value
            /\ last' = [op |-> call, ok |-> TRUE, origin |-> origin, ret |-> "Ok"]
       ELSE /\ Paused' = Paused
            /\ last' = [op |-> call, ok |-> FALSE, origin |-> origin, ret |-> "BadOrigin"]

pallet_pause(origin) == Dispatch("pallet.pause", origin, pause_value(Paused))
pallet_unpause(origin) == Dispatch("pallet.unpause", origin, unpause_value(Paused))
pallet_toggle(origin) == Dispatch("pallet.toggle", origin, toggle_value(Paused))

PalletNext ==
    \/ \E o \in Origins : pallet_pause(o) /\ UNCHANGED <<tokenVars, pending, stakingVars, gameVars>>
    \/ \E o \in Origins : pallet_unpause(o) /\ UNCHANGED <<tokenVars, pending, stakingVars, gameVars>>
    \/ \E o \in Origins : pallet_toggle(o) /\ UNCHANGED <<tokenVars, pending, stakingVars, gameVars>>

(***************************************************************************)
(* solana_vulnerable_game.  The program's processor is not among the       *)
(* sources; user_level_up is modelled from its integration tests: the      *)
(* level cost loop, then the subtraction from the user's credits, which    *)
(* the program is built to check for overflow.  What the instruction does  *)
(* to the user's level is not stated by the tests and is left out.         *)
(***************************************************************************)
CreditsPerLevel == {0, 1, 10}
MintAmounts == {1, 5, 10}
CreditsToBurn == {0, 1, 2, 3, 4, 6, 7, 10, 11, 30, 31, 50, 60, 61, U32_MAX}

GameInit ==
    /\ game_config = None
    /\ user = None

\* The loop of user_level_up, from (iterator, level_credits, next_level_credits).
\* The result is <<ok, level_credits>>; ok is FALSE when the u32 arithmetic
\* overflows (credits_per_level = 0 never ends the loop and overflows the iterator).
RECURSIVE LevelLoop(_, _, _, _, _)
LevelLoop(iterator, level_credits, next_level_credits, credits_to_burn, credits_per_level) ==
    IF ~(next_level_credits < credits_to_burn)
    THEN <<TRUE, level_credits>>
    ELSE IF \/ iterator + 1 > U32_MAX
            \/ next_level_credits + (iterator + 1) * credits_per_level > U32_MAX
         THEN <<FALSE, level_credits>>
         ELSE LevelLoop(iterator + 1, next_level_credits,
                        next_level_credits + (iterator + 1) * credits_per_level,
                        credits_to_burn, credits_per_level)

\* the loop entered with the iterator already at 1
LevelCredits_from_one(credits_to_burn, credits_per_level) ==
    LevelLoop(1, 0, 0, credits_to_burn, credits_per_level)

LevelCredits(credits_to_burn, credits_per_level) ==
    LevelLoop(0, 0, 0, credits_to_burn, credits_per_level)

\* the subtraction without overflow checks: it wraps around
sub_credits_wrapping(credits, level_credits) ==
    Some((credits - level_credits) % (U32_MAX + 1))

\* user.credits -= level_credits, with overflow checks: None when it underflows.
sub_credits(credits, level_credits) ==
    IF credits < level_credits THEN None ELSE Some(credits - level_credits)

GameErr(name, arg) ==
    /\ last' = [op |-> name, ok |-> FALSE, amount |-> arg]
    /\ UNCHANGED gameVars

create_game_config(cpl) ==
    IF IsSome(game_config)
    THEN GameErr("create_game_config", cpl)
    ELSE /\ game_config' = Some([credits_per_level |-> cpl])
         /\ last' = [op |-> "create_game_config", ok |-> TRUE, amount |-> cpl]
         /\ UNCHANGED user

create_user ==
    IF ~IsSome(game_config) \/ IsSome(user)
    THEN GameErr("create_user", 0)
    ELSE /\ user' = Some([credits |-> 0])
         /\ last' = [op |-> "create_user", ok |-> TRUE, amount |-> 0]
         /\ UNCHANGED game_config

mint_credits_to_user(amount) ==
    IF ~IsSome(game_config) \/ ~IsSome(user) \/ Unwrap(user).credits + amount > U32_MAX
    THEN GameErr("mint_credits_to_user", amount)
    ELSE /\ user' = Some([credits |-> Unwrap(user).credits + amount])
         /\ last' = [op |-> "mint_credits_to_user", ok |-> TRUE, amount |-> amount]
         /\ UNCHANGED game_config

user_level_up(credits_to_burn) ==
    IF ~IsSome(game_config) \/ ~IsSome(user)
    THEN GameErr("user_level_up", credits_to_burn)
    ELSE LET cost == LevelCredits(credits_to_burn, Unwrap(game_config).credits_per_level)
             left == sub_credits(Unwrap(user).credits, cost[2])
         IN IF ~cost[1] \/ ~IsSome(left)
            THEN GameErr("user_level_up", credits_to_burn)
            ELSE /\ user' = Some([credits |-> Unwrap(left)])
                 /\ last' = [op |-> "user_level_up", ok |-> TRUE, amount |-> credits_to_burn]
                 /\ UNCHANGED game_config

GameNext ==
    \/ \E c \in CreditsPerLevel :
          create_game_config(c) /\ UNCHANGED <<tokenVars, pending, stakingVars, palletVars>>
    \/ create_user /\ UNCHANGED <<tokenVars, pending, stakingVars, palletVars>>
    \/ \E a \in MintAmounts :
          mint_credits_to_user(a) /\ UNCHANGED <<tokenVars, pending, stakingVars, palletVars>>
    \/ \E b \in CreditsToBurn :
          user_level_up(b) /\ UNCHANGED <<tokenVars, pending, stakingVars, palletVars>>

(***************************************************************************)
(* Specifications: one per program; the other programs' state stays as     *)
(* constructed.                                                            *)
(***************************************************************************)
IdleToken ==
    /\ owner_id = "alice"
    /\ accounts = [a \in {"alice"} |-> 0]
    /\ total_supply = 0
    /\ token_metadata = Some(DefaultMetadata)
    /\ block_list = [a \in {} |-> Allowed]
    /\ status = Working
    /\ associated_contract_account_id = None
    /\ registration_fee_denominator = DefaultDenominator
    /\ pending = {}

IdleStaking ==
    /\ owner = "alice"
    /\ stake_balances = <<>>
    /\ total_staked = 0

\* MalbornClubContract
TokenSpecInit == TokenInit /\ pending = {} /\ IdleStaking /\ PalletInit /\ GameInit /\ last = NoCall
Spec == TokenSpecInit /\ [][TokenNext]_vars

\* MalbornClubContract, event registration
EventSpec == TokenSpecInit /\ [][EventNext]_vars

\* StakingContract
StakingSpecInit == IdleToken /\ StakingInit /\ PalletInit /\ GameInit /\ last = NoCall
StakingSpec == StakingSpecInit /\ [][StakingNext]_vars

\* pallet_pause
PalletSpecInit == IdleToken /\ IdleStaking /\ PalletInit /\ GameInit /\ last = NoCall
PalletSpec == PalletSpecInit /\ [][PalletNext]_vars

\* solana_vulnerable_game
GameSpecInit == IdleToken /\ IdleStaking /\ PalletInit /\ GameInit /\ last = NoCall
GameSpec == GameSpecInit /\ [][GameNext]_vars

(***************************************************************************)
(* Properties                                                              *)
(***************************************************************************)
\* Entry points whose first check is not_paused.
PauseGatedFirst == {"get_symbol", "get_name", "get_decimals", "register_for_event",
                    "get_blocklist_status", "ft_transfer", "ft_total_supply",
                    "ft_balance_of"}
MetadataGetters == {"get_symbol", "get_name", "get_decimals"}
\* Entry points that check only_owner and then not_paused.
PauseGatedOwnerFirst == {"mint_tokens", "burn_tokens", "add_to_blocklist",
                         "remove_from_blocklist"}

\* C1: resume() by the owner on a paused contract leaves the status Paused, and
\* a pause-gated call made right after it panics with "Contract is paused".
C1_ResumeStaysPaused ==
    [][ /\ (last'.op = "resume" /\ last'.ok /\ status = PausedStatus)
            => (status' = PausedStatus /\ last'.signer = owner_id)
        /\ (last.op = "resume" /\ last.ok /\ last.was = PausedStatus
              /\ last'.op \in PauseGatedFirst)
            => (~last'.ok /\ last'.msg = "Contract is paused" /\ UNCHANGED tokenVars)
      ]_vars

C1_Witness ==
    last.op = "resume" /\ last.ok /\ last.was = PausedStatus /\ status = PausedStatus

\* C2: toggle() from an accepted origin returns Ok and leaves Paused as it was,
\* whether it was false or true.
C2_ToggleKeepsPaused ==
    [][ (last'.op = "pallet.toggle" /\ PauseOriginOk(last'.origin))
            => (last'.ok /\ last'.ret = "Ok" /\ Paused' = Paused)
      ]_vars

C2_Witness ==
    last.op = "pallet.toggle" /\ last.ok /\ Paused = TRUE

\* C3: once Paused is true, unpause() by the PauseOrigin admin returns Ok and
\* Paused is still true.
C3_UnpauseKeepsPaused ==
    [][ (last'.op = "pallet.unpause" /\ last'.origin = Signed(Admin) /\ Paused = TRUE)
            => (last'.ok /\ last'.ret = "Ok" /\ Paused' = TRUE)
      ]_vars

C3_Witness ==
    last.op = "pallet.unpause" /\ last.origin = Signed(Admin) /\ last.ok /\ Paused = TRUE

\* C4: user_level_up fails, leaving the accounts as they were, whenever the level
\* cost is greater than the user's credits; when it succeeds the credits are the
\* old credits minus the cost, never a wrapped-around value.
C4_LevelUpFailsOnUnderflow ==
    [][ (last'.op = "user_level_up" /\ IsSome(game_config) /\ IsSome(user))
            => LET credits == Unwrap(user).credits
                   cost == LevelCredits(last'.amount, Unwrap(game_config).credits_per_level)
               IN /\ (cost[1] /\ cost[2] > credits) => (~last'.ok /\ UNCHANGED gameVars)
                  /\ last'.ok => /\ cost[2] <= credits
                                 /\ Unwrap(user').credits = credits - cost[2]
      ]_vars

C4_Witness ==
    /\ last.op = "user_level_up" /\ ~last.ok /\ last.amount = 50
    /\ IsSome(game_config) /\ Unwrap(game_config).credits_per_level = 10
    /\ IsSome(user) /\ Unwrap(user).credits \in {5, 10}

\* C5: a successful get_symbol, get_name or get_decimals returns the stored field
\* ("MAL", "Malborn Token", 10 right after new) and empties the metadata slot, so
\* that an ft_metadata() call that follows panics.
C5_GettersConsumeMetadata ==
    [][ /\ (last'.op \in MetadataGetters /\ last'.ok)
            => /\ IsSome(token_metadata)
               /\ token_metadata' = None
               /\ last'.op = "get_symbol" => last'.ret = Unwrap(token_metadata).symbol
               /\ last'.op = "get_name" => last'.ret = Unwrap(token_metadata).name
               /\ last'.op = "get_decimals" => last'.ret = Unwrap(token_metadata).decimals
        /\ (last = NoCall /\ last'.op = "get_symbol") => (last'.ok /\ last'.ret = "MAL")
        /\ (last = NoCall /\ last'.op = "get_name")
            => (last'.ok /\ last'.ret = "Malborn Token")
        /\ (last = NoCall /\ last'.op = "get_decimals") => (last'.ok /\ last'.ret = 10)
        /\ (last.op \in MetadataGetters /\ last.ok /\ last'.op = "ft_metadata")
            => (~last'.ok /\ UNCHANGED tokenVars)
      ]_vars

C5_Witness ==
    last.op = "get_symbol" /\ last.ok /\ last.ret = "HAL" /\ token_metadata = None

\* C6: unstake(amount), amount > 0, by a user with recorded balance b returns
\* true, sets the balance to max(0, b - amount) and schedules exactly one transfer
\* to the user: of b when the new balance is 0, of amount otherwise, which is
\* min(amount, b) in both cases.
C6_UnstakeRefund ==
    [][ (last'.op = "unstake" /\ last'.amount > 0 /\ MapHas(stake_balances, last'.caller))
            => LET u == last'.caller
                   amount == last'.amount
                   b == MapGet(stake_balances, u)
                   nb == MapGet(stake_balances', u)
               IN /\ last'.ok /\ last'.ret = TRUE
                  /\ nb = Max(0, b - amount)
                  /\ Len(last'.promises) = 1
                  /\ last'.promises[1].to = u
                  /\ last'.promises[1].amount = (IF nb = 0 THEN b ELSE amount)
                  /\ last'.promises[1].amount = Min(amount, b)
      ]_vars

C6_Witness ==
    /\ last.op = "unstake" /\ last.ok /\ last.ret = TRUE
    /\ Len(last.promises) = 1 /\ last.promises[1].amount > 0
    /\ get_user_staked(last.caller) = 0

\* C7: unstake(amount) with amount above the caller's balance b sets the balance
\* to 0, refunds b, and takes the requested amount off total_staked, saturating
\* at 0: total_staked becomes max(0, total_staked - amount).
C7_UnstakeTotalUsesAmount ==
    [][ (/\ last'.op = "unstake" /\ MapHas(stake_balances, last'.caller)
         /\ last'.amount > MapGet(stake_balances, last'.caller))
            => LET u == last'.caller
                   b == MapGet(stake_balances, u)
               IN /\ last'.ok
                  /\ MapGet(stake_balances', u) = 0
                  /\ last'.promises = <<[to |-> u, amount |-> b]>>
                  /\ total_staked' = Max(0, total_staked - last'.amount)
      ]_vars

C7_Witness ==
    /\ last.op = "unstake" /\ last.ok /\ last.ret = TRUE
    /\ last.promises[1].amount < last.amount
    /\ \E i \in 1..Len(stake_balances) : stake_balances[i].v > total_staked

\* C8: stake() with deposit d returns the caller's new balance, the previous
\* balance (0 without an entry) plus d, and adds d to total_staked, both
\* saturating at the u128 maximum; the other users' balances stay as they were.
C8_StakeAdds ==
    [][ (last'.op = "stake")
            => LET u == last'.caller
                   d == last'.amount
                   prev == IF MapHas(stake_balances, u) THEN MapGet(stake_balances, u) ELSE 0
               IN /\ last'.ok
                  /\ last'.ret = Min(prev + d, U128_MAX)
                  /\ MapHas(stake_balances', u) /\ MapGet(stake_balances', u) = last'.ret
                  /\ total_staked' = Min(total_staked + d, U128_MAX)
                  /\ \A o \in Accounts \ {u} :
                        /\ MapHas(stake_balances', o) = MapHas(stake_balances, o)
                        /\ MapHas(stake_balances, o)
                             => MapGet(stake_balances', o) = MapGet(stake_balances, o)
                  /\ last'.promises = <<>>
      ]_vars

C8_Witness ==
    /\ last.op = "stake" /\ last.amount > 0 /\ last.ret > last.amount
    /\ Len(stake_balances) = 2

\* C9: a mint_tokens(account, amount) call that goes through for an account that
\* is not registered was made by the owner, adds amount to total_supply and
\* returns the new total_supply, while the account stays unregistered with
\* ft_balance_of(account) = 0; the owner's call goes through whenever the contract
\* is Working and the supply does not overflow.
C9_MintUnregistered ==
    [][ /\ (last'.op = "mint_tokens" /\ last'.ok /\ ~Registered(accounts, last'.acct))
            => /\ last'.signer = owner_id
               /\ total_supply' = total_supply + last'.amount
               /\ last'.ret = total_supply'
               /\ accounts' = accounts
               /\ balance_of(accounts', last'.acct) = 0
        /\ \A a \in Accounts, n \in Amounts :
              (/\ last'.op = "mint_tokens"
               /\ mint_tokens(owner_id, a, n) /\ ~Registered(accounts, a)
               /\ status = Working /\ total_supply + n <= U128_MAX)
                 => (last'.ok /\ last'.acct = a /\ last'.amount = n)
      ]_vars

C9_Witness ==
    /\ last.op = "mint_tokens" /\ last.ok /\ last.amount > 0
    /\ ~Registered(accounts, last.acct)
    /\ last.ret = total_supply

\* C10: mint_tokens(account, amount) by the owner for a registered account on a
\* Working contract adds exactly amount to the account's balance and to
\* total_supply and returns the new total_supply; when either addition would
\* overflow it panics and the state stays as it was.
C10_MintRegistered ==
    [][ /\ (last'.op = "mint_tokens" /\ last'.ok /\ Registered(accounts, last'.acct))
            => /\ accounts' = [accounts EXCEPT ![last'.acct] = @ + last'.amount]
               /\ total_supply' = total_supply + last'.amount
               /\ last'.ret = total_supply'
               /\ total_supply' <= U128_MAX /\ accounts'[last'.acct] <= U128_MAX
               /\ UNCHANGED <<owner_id, token_metadata, block_list, status,
                              associated_contract_account_id,
                              registration_fee_denominator>>
        /\ \A a \in Accounts, n \in Amounts :
              (/\ last'.op = "mint_tokens"
               /\ mint_tokens(owner_id, a, n) /\ Registered(accounts, a)
               /\ status = Working)
                 => IF total_supply + n > U128_MAX \/ accounts[a] + n > U128_MAX
                    THEN ~last'.ok /\ UNCHANGED tokenVars
                    ELSE last'.ok /\ last'.acct = a /\ last'.amount = n
      ]_vars

C10_Witness ==
    /\ last.op = "mint_tokens" /\ last.ok /\ last.amount > 0
    /\ Registered(accounts, last.acct)
    /\ accounts[last.acct] >= last.amount

\* C11: a register_for_event that goes through (signer not banned, contract
\* Working, associated contract set) takes floor(total_supply /
\* registration_fee_denominator) off the signer's balance and off total_supply
\* in the step that issues the call to the associated contract, so the call
\* only ever runs after the burn; a call that panics burns nothing and issues
\* nothing; and when the issued call has run, succeeded or failed, the token
\* state is what it was.
C11_BurnBeforeCall ==
    [][ /\ (last'.op = "register_for_event" /\ last'.ok)
            => LET s == last'.signer
                   burn_amount == total_supply \div registration_fee_denominator
               IN  /\ status = Working
                   /\ IsSome(associated_contract_account_id)
                   /\ ~(s \in DOMAIN block_list /\ block_list[s] = Banned)
                   /\ registration_fee_denominator # 0
                   /\ last'.ret.burned = burn_amount
                   /\ total_supply' = total_supply - burn_amount
                   /\ accounts' = [accounts EXCEPT ![s] = @ - burn_amount]
                   /\ last'.ret.promise.account_id = s
                   /\ last'.ret.promise.receiver = Unwrap(associated_contract_account_id)
                   /\ pending' = pending \cup {last'.ret.promise}
                   /\ UNCHANGED <<block_list, status, registration_fee_denominator>>
        /\ (last'.op = "register_for_event" /\ ~last'.ok)
            => UNCHANGED <<tokenVars, pending>>
        /\ last'.op = "promise_result"
            => /\ last'.promise \in pending
               /\ UNCHANGED tokenVars
        /\ \A s \in Accounts, e \in EventIds :
              (/\ last'.op = "register_for_event"
               /\ register_for_event(s, e)
               /\ status = Working
               /\ IsSome(associated_contract_account_id)
               /\ ~(s \in DOMAIN block_list /\ block_list[s] = Banned)
               /\ registration_fee_denominator # 0
               /\ Registered(accounts, s)
               /\ accounts[s] >= total_supply \div registration_fee_denominator)
                 => last'.ok /\ last'.signer = s
      ]_vars

C11_Witness ==
    /\ last.op = "register_for_event" /\ last.ok
    /\ last.ret.burned > 0
    /\ last.ret.promise \in pending

\* C12 as stated: once the denominator is 0, every register_for_event call
\* panics with a division by zero and burns nothing.
C12_EveryCallDividesByZero ==
    [][ (registration_fee_denominator = 0 /\ last'.op = "register_for_event")
          => /\ ~last'.ok
             /\ last'.msg = "attempt to divide by zero"
             /\ UNCHANGED tokenVars
      ]_vars

\* C12, amended: set_registration_fee_denominator accepts every value from the
\* owner, 0 included; while the denominator is 0 every register_for_event call
\* panics with nothing burned and no call issued: with a division by zero when
\* the contract is Working, the associated contract is set and the signer is
\* not banned, and with the message of the first of those checks that fails
\* otherwise; the denominator stays 0 until the setter stores another value.
C12_ZeroDenominator ==
    [][ /\ \A d \in Denominators :
              (/\ last'.op = "set_registration_fee_denominator"
               /\ set_registration_fee_denominator(owner_id, d))
                 => /\ last'.ok
                    /\ registration_fee_denominator' = d
        /\ (registration_fee_denominator = 0 /\ last'.op = "register_for_event")
              => /\ ~last'.ok
                 /\ UNCHANGED <<tokenVars, pending>>
        /\ \A s \in Accounts, e \in EventIds :
              (/\ registration_fee_denominator = 0
               /\ last'.op = "register_for_event"
               /\ register_for_event(s, e))
                 => last'.msg =
                      IF status # Working THEN "Contract is paused"
                      ELSE IF ~IsSome(associated_contract_account_id)
                      THEN "Associated Account is not set"
                      ELSE IF s \in DOMAIN block_list /\ block_list[s] = Banned
                      THEN "User is banned"
                      ELSE "attempt to divide by zero"
        /\ (registration_fee_denominator = 0 /\ registration_fee_denominator' # 0)
              => /\ last'.op = "set_registration_fee_denominator"
                 /\ last'.ok
                 /\ last'.signer = owner_id
      ]_vars

C12_Witness ==
    /\ registration_fee_denominator = 0
    /\ last.op = "register_for_event" /\ ~last.ok
    /\ last.msg = "attempt to divide by zero"
    /\ total_supply > 0

\* C13 as stated: while the status is Paused every entry point that calls
\* not_paused panics with "Contract is paused" and changes no state.
C13_EveryGatedCallSaysPaused ==
    [][ (status = PausedStatus
         /\ last'.op \in PauseGatedFirst \cup PauseGatedOwnerFirst)
          => /\ ~last'.ok
             /\ last'.msg = "Contract is paused"
             /\ UNCHANGED tokenVars
      ]_vars

\* C13, amended: while the status is Paused every entry point that calls
\* not_paused panics and changes no state.  The message is "Contract is paused"
\* for the ones that check the pause first (the views ft_total_supply,
\* ft_balance_of and get_blocklist_status, the getters, ft_transfer,
\* register_for_event), and for mint_tokens, burn_tokens, add_to_blocklist and
\* remove_from_blocklist when the owner signs; signed by anyone else these four
\* panic with "Can only be called by owner", which they check first.
C13_PausedPanics ==
    [][ /\ (status = PausedStatus /\ last'.op \in PauseGatedFirst)
            => /\ ~last'.ok
               /\ last'.msg = "Contract is paused"
               /\ UNCHANGED <<tokenVars, pending>>
        /\ (status = PausedStatus /\ last'.op \in PauseGatedOwnerFirst)
            => /\ ~last'.ok
               /\ UNCHANGED <<tokenVars, pending>>
        /\ (status = PausedStatus /\ last'.op \in PauseGatedOwnerFirst) =>
            \A s \in Accounts, a \in Accounts, n \in Amounts :
              (   \/ last'.op = "mint_tokens" /\ mint_tokens(s, a, n)
                  \/ last'.op = "burn_tokens" /\ burn_tokens(s, a, n)
                  \/ last'.op = "add_to_blocklist" /\ add_to_blocklist(s, a)
                  \/ last'.op = "remove_from_blocklist" /\ remove_from_blocklist(s, a))
                 => last'.msg = IF s = owner_id
                                THEN "Contract is paused"
                                ELSE "Can only be called by owner"
      ]_vars

C13_Witness ==
    /\ status = PausedStatus
    /\ last.op = "ft_balance_of" /\ ~last.ok
    /\ last.msg = "Contract is paused"
    /\ total_supply > 0

\* C14: an ft_transfer signed by an account whose blocklist status is Banned
\* panics (with "User is banned" unless the contract is paused) and leaves
\* every balance and the supply as they were, whatever the signer holds.
C14_BannedSignerCannotTransfer ==
    [][ last'.op = "ft_transfer" =>
        \A s \in Accounts, p \in Accounts, r \in Accounts, n \in Amounts :
          (/\ s \in DOMAIN block_list
           /\ block_list[s] = Banned
           /\ ft_transfer(s, p, r, n))
             => /\ ~last'.ok
                /\ last'.msg = IF status = PausedStatus
                               THEN "Contract is paused"
                               ELSE "User is banned"
                /\ accounts' = accounts
                /\ total_supply' = total_supply
      ]_vars

C14_Witness ==
    /\ last.op = "ft_transfer" /\ ~last.ok
    /\ last.msg = "User is banned"
    /\ \E a \in Accounts : a \in DOMAIN block_list /\ block_list[a] = Banned
    /\ \A a \in Accounts :
          (a \in DOMAIN block_list /\ block_list[a] = Banned)
            => Registered(accounts, a) /\ accounts[a] >= U128_MAX

\* C15: get_blocklist_status(a) returns Allowed for an account that was never
\* listed, Banned once add_to_blocklist(a) has gone through and Allowed again
\* once remove_from_blocklist(a) has: the status of a is set by the last of the
\* two applied to a, and no other call, nor either of them on another account,
\* changes it.
C15_BlocklistStatus ==
    [][ LET St(bl, a) == IF a \in DOMAIN bl THEN bl[a] ELSE Allowed IN
        /\ last = NoCall => DOMAIN block_list = {}
        /\ (last'.op = "get_blocklist_status" /\ last'.ok)
            => /\ last'.ret = St(block_list, last'.acct)
               /\ last'.acct \notin DOMAIN block_list => last'.ret = Allowed
               /\ UNCHANGED tokenVars
        /\ (last'.op = "add_to_blocklist" /\ last'.ok)
            => /\ St(block_list', last'.acct) = Banned
               /\ \A b \in Accounts \ {last'.acct} :
                     St(block_list', b) = St(block_list, b)
        /\ (last'.op = "remove_from_blocklist" /\ last'.ok)
            => /\ St(block_list', last'.acct) = Allowed
               /\ \A b \in Accounts \ {last'.acct} :
                     St(block_list', b) = St(block_list, b)
        /\ ~(last'.op \in {"add_to_blocklist", "remove_from_blocklist"} /\ last'.ok)
            => \A a \in Accounts : St(block_list', a) = St(block_list, a)
        /\ \A a \in Accounts :
              (/\ last'.op \in {"add_to_blocklist", "remove_from_blocklist"}
               /\ \/ add_to_blocklist(owner_id, a)
                  \/ remove_from_blocklist(owner_id, a)
               /\ status = Working)
                 => last'.ok /\ last'.acct = a
      ]_vars

C15_Witness ==
    /\ last.op = "get_blocklist_status" /\ last.ok
    /\ last.ret = Allowed
    /\ last.acct \in DOMAIN block_list
    /\ \E b \in Accounts \ {last.acct} :
          b \in DOMAIN block_list /\ block_list[b] = Banned

\* C16: an ft_transfer(receiver, amount) that goes through takes amount off the
\* balance of the sender (the caller the token library debits), adds it to the
\* balance of the receiver, which is registered, and leaves total_supply and
\* every other balance as they were; a transfer of more than the sender holds
\* is rejected and changes nothing.
C16_TransferMovesAmount ==
    [][ /\ (last'.op = "ft_transfer" /\ last'.ok)
            => LET sender == last'.ret
                   receiver == last'.acct
                   amount == last'.amount
               IN  /\ ~(last'.signer \in DOMAIN block_list
                        /\ block_list[last'.signer] = Banned)
                   /\ Registered(accounts, sender)
                   /\ Registered(accounts, receiver)
                   /\ sender # receiver
                   /\ amount <= accounts[sender]
                   /\ DOMAIN accounts' = DOMAIN accounts
                   /\ accounts'[sender] = accounts[sender] - amount
                   /\ accounts'[receiver] = accounts[receiver] + amount
                   /\ \A a \in DOMAIN accounts \ {sender, receiver} :
                         accounts'[a] = accounts[a]
                   /\ total_supply' = total_supply
        /\ last'.op = "ft_transfer" =>
            \A s \in Accounts, p \in Accounts, r \in Accounts, n \in Amounts :
              /\ (n > balance_of(accounts, p) /\ ft_transfer(s, p, r, n))
                   => /\ ~last'.ok
                      /\ UNCHANGED tokenVars
              /\ (/\ status = Working
                  /\ ~(s \in DOMAIN block_list /\ block_list[s] = Banned)
                  /\ s = p /\ p # r /\ n > 0
                  /\ Registered(accounts, p) /\ Registered(accounts, r)
                  /\ n <= accounts[p]
                  /\ accounts[r] + n <= U128_MAX
                  /\ ft_transfer(s, p, r, n))
                   => last'.ok /\ last'.ret = p /\ last'.acct = r /\ last'.amount = n
      ]_vars

C16_Witness ==
    /\ last.op = "ft_transfer" /\ last.ok
    /\ last.amount > 0
    /\ last.signer = last.ret
    /\ accounts[last.acct] >= last.amount

\* The level costs 0, c, 3c, 6c, ... (c times the triangular numbers) that are
\* strictly below credits_to_burn.
LevelCostsBelow(credits_to_burn, credits_per_level) ==
    {v \in {((k * (k + 1)) \div 2) * credits_per_level : k \in 0..U32_MAX} :
        v < credits_to_burn}

\* C17 as stated: whenever the loop of user_level_up runs to its end, the
\* level_credits it leaves is the largest of 0, c, 3c, 6c, ... that is strictly
\* less than credits_to_burn.
C17_LargestCostBelow ==
    [][ (last'.op = "user_level_up" /\ IsSome(game_config) /\ IsSome(user))
          => LET cost == LevelCredits(last'.amount, Unwrap(game_config).credits_per_level)
                 below == LevelCostsBelow(last'.amount,
                                          Unwrap(game_config).credits_per_level)
             IN  cost[1] => /\ cost[2] \in below
                            /\ \A v \in below : v <= cost[2]
      ]_vars

\* C17, amended: the loop of user_level_up starts from iterator = 0,
\* level_credits = 0, next_level_credits = 0 and runs while next_level_credits
\* < credits_to_burn.  For credits_to_burn > 0 the level_credits it ends with
\* is the largest of 0, c, 3c, 6c, ... strictly less than credits_to_burn (30
\* for c = 10 and credits_to_burn = 50), and it does end when c > 0 and the
\* first of these values at or above credits_to_burn fits in a u32; for
\* credits_to_burn = 0 the body never runs and level_credits is 0, which is not
\* below credits_to_burn.  A level up that succeeds takes exactly that amount
\* off the credits of the user.
C17_LevelCost ==
    [][ (last'.op = "user_level_up" /\ IsSome(game_config) /\ IsSome(user))
          => LET c == Unwrap(game_config).credits_per_level
                 b == last'.amount
                 cost == LevelCredits(b, c)
                 below == LevelCostsBelow(b, c)
             IN  /\ (cost[1] /\ b > 0)
                       => /\ cost[2] \in below
                          /\ \A v \in below : v <= cost[2]
                 /\ b = 0 => cost = <<TRUE, 0>> /\ below = {}
                 /\ (/\ c > 0 /\ b > 0
                     /\ \E k \in 0..U32_MAX :
                           /\ ((k * (k + 1)) \div 2) * c >= b
                           /\ ((k * (k + 1)) \div 2) * c <= U32_MAX)
                       => cost[1]
                 /\ (c = 0 /\ b > 0) => ~cost[1]
                 /\ (c = 10 /\ b = 50) => cost = <<TRUE, 30>>
                 /\ last'.ok
                       => /\ cost[1]
                          /\ Unwrap(user).credits >= cost[2]
                          /\ Unwrap(user').credits = Unwrap(user).credits - cost[2]
                 /\ ~last'.ok => UNCHANGED gameVars
      ]_vars

C17_Witness ==
    /\ last.op = "user_level_up" /\ last.ok
    /\ last.amount = 50
    /\ IsSome(game_config) /\ Unwrap(game_config).credits_per_level = 10
    /\ IsSome(user) /\ Unwrap(user).credits = 0

====
